---- MODULE Spec2Model ----
(***************************************************************************)
(* A model of sqltrace: the SQL-comment codec, the comment injector        *)
(* (add_sql_comment) and the auto_explain notice handler                   *)
(* (auto_explain_notice_handler) of src/sqltrace/_propagation.py, with the *)
(* psycopg entry points of src/sqltrace/psycopg.py.                        *)
(*                                                                         *)
(* Text is a sequence of Unicode code points, binary data a sequence of    *)
(* byte values.  Str(<<"a", ";">>) writes a text literal.                  *)
(***************************************************************************)
EXTENDS Integers, Sequences, FiniteSets, TLC

\* ------------------------------------------------------------------------
\* Bounds of the model.
\* ------------------------------------------------------------------------
MaxKeyLen == 1
MaxValLen == 2
MaxPairLen == 1

\* ------------------------------------------------------------------------
\* Characters.
\* ------------------------------------------------------------------------
Ord ==
    ("TAB" :> 9) @@ ("LF" :> 10) @@ ("FS" :> 28) @@ (" " :> 32) @@ ("\"" :> 34)
    @@ ("%" :> 37) @@ ("'" :> 39) @@ ("*" :> 42) @@ ("+" :> 43) @@ ("," :> 44) @@ ("-" :> 45)
    @@ ("." :> 46) @@ ("/" :> 47)
    @@ ("0" :> 48) @@ ("1" :> 49) @@ ("2" :> 50) @@ ("3" :> 51) @@ ("4" :> 52)
    @@ ("5" :> 53) @@ ("6" :> 54) @@ ("7" :> 55) @@ ("8" :> 56) @@ ("9" :> 57)
    @@ (":" :> 58) @@ (";" :> 59) @@ ("=" :> 61)
    @@ ("A" :> 65) @@ ("B" :> 66) @@ ("C" :> 67) @@ ("D" :> 68) @@ ("E" :> 69)
    @@ ("F" :> 70) @@ ("_" :> 95)
    @@ ("a" :> 97) @@ ("b" :> 98) @@ ("c" :> 99) @@ ("d" :> 100) @@ ("e" :> 101)
    @@ ("f" :> 102) @@ ("g" :> 103) @@ ("i" :> 105) @@ ("l" :> 108) @@ ("m" :> 109)
    @@ ("n" :> 110) @@ ("o" :> 111) @@ ("p" :> 112) @@ ("q" :> 113)
    @@ ("r" :> 114) @@ ("s" :> 115) @@ ("t" :> 116) @@ ("u" :> 117)
    @@ ("x" :> 120) @@ ("{" :> 123) @@ ("}" :> 125)
    @@ ("NBSP" :> 160)

Str(cs) == [i \in DOMAIN cs |-> Ord[cs[i]]]

\* str.isspace(): the characters str.strip()/str.rstrip() remove.
StrWhitespace ==
    (9 .. 13) \cup (28 .. 32) \cup {133, 160, 5760} \cup (8192 .. 8202)
    \cup {8232, 8233, 8239, 8287, 12288}

\* The bytes bytes.rstrip() removes: b' \t\n\r\x0b\f'.
BytesWhitespace == (9 .. 13) \cup {32}

\* ------------------------------------------------------------------------
\* Sequence helpers (Python str / bytes methods).
\* ------------------------------------------------------------------------
Slice(s, a, b) == [i \in 1 .. (IF b >= a THEN b - a + 1 ELSE 0) |-> s[a + i - 1]]

RECURSIVE RStrip(_, _)
RStrip(s, ws) ==
    IF s = <<>> THEN s
    ELSE IF s[Len(s)] \in ws THEN RStrip(Slice(s, 1, Len(s) - 1), ws)
    ELSE s

RECURSIVE LStrip(_, _)
LStrip(s, ws) ==
    IF s = <<>> THEN s
    ELSE IF s[1] \in ws THEN LStrip(Tail(s), ws)
    ELSE s

Strip(s) == LStrip(RStrip(s, StrWhitespace), StrWhitespace)

\* s[i : i + len(t)] == t
MatchAt(s, t, i) ==
    /\ i >= 1
    /\ i + Len(t) - 1 <= Len(s)
    /\ \A j \in 1 .. Len(t) : s[i + j - 1] = t[j]

\* `t in s`
Contains(s, t) == \E i \in 1 .. (Len(s) + 1) : MatchAt(s, t, i)

\* s.find(t), 1-based; 0 when absent
Find(s, t) ==
    IF Contains(s, t)
    THEN CHOOSE i \in 1 .. (Len(s) + 1) :
            /\ MatchAt(s, t, i)
            /\ \A j \in 1 .. (i - 1) : ~MatchAt(s, t, j)
    ELSE 0

\* s.rfind(t), 1-based; 0 when absent
RFind(s, t) ==
    IF Contains(s, t)
    THEN CHOOSE i \in 1 .. (Len(s) + 1) :
            /\ MatchAt(s, t, i)
            /\ \A j \in (i + 1) .. (Len(s) + 1) : ~MatchAt(s, t, j)
    ELSE 0

\* s.split(c) for a one-character separator
RECURSIVE Split(_, _)
Split(s, c) ==
    LET i == Find(s, <<c>>)
    IN IF i = 0 THEN <<s>>
       ELSE <<Slice(s, 1, i - 1)>> \o Split(Slice(s, i + 1, Len(s)), c)

\* s.split(c, maxsplit=1)
Split1(s, c) ==
    LET i == Find(s, <<c>>)
    IN IF i = 0 THEN <<s>>
       ELSE <<Slice(s, 1, i - 1), Slice(s, i + 1, Len(s))>>

\* s.replace(t, u), left to right, non-overlapping, t non-empty
RECURSIVE Replace(_, _, _)
Replace(s, t, u) ==
    IF s = <<>> THEN <<>>
    ELSE IF MatchAt(s, t, 1)
         THEN u \o Replace(Slice(s, Len(t) + 1, Len(s)), t, u)
         ELSE <<s[1]>> \o Replace(Tail(s), t, u)

\* a < b for str (code point order)
RECURSIVE StrLess(_, _)
StrLess(a, b) ==
    IF b = <<>> THEN FALSE
    ELSE IF a = <<>> THEN TRUE
    ELSE IF a[1] # b[1] THEN a[1] < b[1]
    ELSE StrLess(Tail(a), Tail(b))

\* sorted(keys)
RECURSIVE Sorted(_)
Sorted(ks) ==
    IF ks = {} THEN <<>>
    ELSE LET m == CHOOSE k \in ks : \A o \in ks \ {k} : StrLess(k, o)
         IN <<m>> \o Sorted(ks \ {m})

\* sep.join(parts)
RECURSIVE Join(_, _)
Join(parts, sep) ==
    IF parts = <<>> THEN <<>>
    ELSE IF Len(parts) = 1 THEN parts[1]
    ELSE parts[1] \o sep \o Join(Tail(parts), sep)

\* ------------------------------------------------------------------------
\* UTF-8 and urllib.parse.quote_plus / unquote_plus.
\* ------------------------------------------------------------------------
Utf8Char(cp) ==
    IF cp < 128 THEN <<cp>>
    ELSE IF cp < 2048 THEN <<192 + (cp \div 64), 128 + (cp % 64)>>
    ELSE <<224 + (cp \div 4096), 128 + ((cp \div 64) % 64), 128 + (cp % 64)>>

\* str.encode('utf-8')
RECURSIVE Utf8Encode(_)
Utf8Encode(s) ==
    IF s = <<>> THEN <<>> ELSE Utf8Char(s[1]) \o Utf8Encode(Tail(s))

IsCont(b) == b \in 128 .. 191

\* bytes.decode('utf-8', errors='replace') for sequences of up to 3 bytes
RECURSIVE Utf8Decode(_)
Utf8Decode(bs) ==
    IF bs = <<>> THEN <<>>
    ELSE LET b == bs[1]
             n == Len(bs)
         IN IF b < 128 THEN <<b>> \o Utf8Decode(Tail(bs))
            ELSE IF b \in 194 .. 223 /\ n >= 2 /\ IsCont(bs[2])
                 THEN <<(b - 192) * 64 + (bs[2] - 128)>>
                      \o Utf8Decode(Slice(bs, 3, n))
            ELSE IF /\ b \in 224 .. 239 /\ n >= 3 /\ IsCont(bs[2]) /\ IsCont(bs[3])
                    /\ (b = 224 => bs[2] >= 160)
                    /\ (b = 237 => bs[2] <= 159)
                 THEN <<(b - 224) * 4096 + (bs[2] - 128) * 64 + (bs[3] - 128)>>
                      \o Utf8Decode(Slice(bs, 4, n))
            ELSE <<65533>> \o Utf8Decode(Tail(bs))

HexDigits == Str(<<"0", "1", "2", "3", "4", "5", "6", "7", "8", "9",
                   "A", "B", "C", "D", "E", "F">>)

HexOf(b) == <<HexDigits[(b \div 16) + 1], HexDigits[(b % 16) + 1]>>

IsHex(c) == c \in (48 .. 57) \cup (65 .. 70) \cup (97 .. 102)

HexVal(c) ==
    IF c \in 48 .. 57 THEN c - 48
    ELSE IF c \in 65 .. 70 THEN c - 55
    ELSE c - 87

\* quote_plus leaves letters, digits and '_.-~' alone
IsSafe(c) == c \in (48 .. 57) \cup (65 .. 90) \cup (97 .. 122) \cup {95, 46, 45, 126}

RECURSIVE PercentBytes(_)
PercentBytes(bs) ==
    IF bs = <<>> THEN <<>>
    ELSE <<Ord["%"]>> \o HexOf(bs[1]) \o PercentBytes(Tail(bs))

RECURSIVE quote_plus(_)
quote_plus(s) ==
    IF s = <<>> THEN <<>>
    ELSE (IF IsSafe(s[1]) THEN <<s[1]>>
          ELSE IF s[1] = Ord[" "] THEN <<Ord["+"]>>
          ELSE PercentBytes(Utf8Char(s[1])))
         \o quote_plus(Tail(s))

\* urllib.parse.unquote_to_bytes: %XX with two hex digits is a byte, any other
\* '%' stays literal
RECURSIVE unquote_to_bytes(_)
unquote_to_bytes(s) ==
    IF s = <<>> THEN <<>>
    ELSE IF s[1] = Ord["%"] /\ Len(s) >= 3 /\ IsHex(s[2]) /\ IsHex(s[3])
         THEN <<HexVal(s[2]) * 16 + HexVal(s[3])>>
              \o unquote_to_bytes(Slice(s, 4, Len(s)))
         ELSE Utf8Char(s[1]) \o unquote_to_bytes(Tail(s))

unquote_plus(s) ==
    Utf8Decode(unquote_to_bytes(Replace(s, <<Ord["+"]>>, <<Ord[" "]>>)))

\* ------------------------------------------------------------------------
\* Python values.
\* ------------------------------------------------------------------------
None == "None"

\* an optional value: Nothing, or Some(v)
Nothing == <<>>
Some(v) == <<v>>

\* the empty dict
EmptyDict == [k \in {} |-> <<>>]

\* d[key] = value on a dict d
DictSet(d, key, value) == (key :> value) @@ d

\* the outcome of evaluating code that may raise
Ok(v) == [ok |-> TRUE, val |-> v]
Raise(e) == [ok |-> FALSE, exc |-> e]

\* ------------------------------------------------------------------------
\* The codec (src/sqltrace/_propagation.py).
\* ------------------------------------------------------------------------
KEY_VALUE_DELIMITER == Str(<<",">>)

\* a quoting that escapes nothing
UrlQuoteNoEscape(s) == s

_url_quote(s) ==
    Replace(quote_plus(s), Str(<<"%">>), Str(<<"%", "%">>))

RECURSIVE QuotedPairs(_, _)
QuotedPairs(meta, keys) ==
    IF keys = <<>> THEN <<>>
    ELSE <<_url_quote(keys[1]) \o Str(<<"=">>) \o _url_quote(meta[keys[1]])>>
         \o QuotedPairs(meta, Tail(keys))

_generate_sql_comment(meta) ==
    IF DOMAIN meta = {} THEN <<>>
    ELSE Str(<<" ", "/", "*">>)
         \o Join(QuotedPairs(meta, Sorted(DOMAIN meta)), KEY_VALUE_DELIMITER)
         \o Str(<<"*", "/">>)

\* The decoding loop of auto_explain_notice_handler: parts is comment.split(',');
\* the result is Ok(parsed_qs) or the ValueError of unpacking a part without '='.
RECURSIVE ParseParts(_, _)
ParseParts(parts, parsed_qs) ==
    IF parts = <<>> THEN Ok(parsed_qs)
    ELSE LET kv == Split1(parts[1], Ord["="])
         IN IF Len(kv) # 2 THEN Raise("ValueError")
            ELSE LET key == unquote_plus(
                                Replace(Strip(kv[1]), Str(<<"%", "%">>), Str(<<"%">>)))
                     value == unquote_plus(
                                Replace(Strip(kv[2]), Str(<<"%", "%">>), Str(<<"%">>)))
                 IN ParseParts(Tail(parts), DictSet(parsed_qs, key, value))

ParseComment(comment) == ParseParts(Split(comment, Ord[","]), EmptyDict)

\* the text between ' /*' and '*/' of an encoded comment
CommentBody(c) == Slice(c, 4, Len(c) - 2)

\* ------------------------------------------------------------------------
\* The context bridge: opentelemetry's current context and the W3C
\* trace-context propagator, as the code uses them.
\* ------------------------------------------------------------------------
\* A context is the span it carries: the span's traceparent header value
\* (empty: no span, INVALID_SPAN_CONTEXT), its tracestate header value
\* (empty: none) and whether the span is recording.
Context(tp, ts, rec) == [traceparent |-> tp, tracestate |-> ts, recording |-> rec]

NoParent == Context(<<>>, <<>>, FALSE)

\* trace.get_current_span().is_recording()
is_recording(ctx) == ctx.recording

traceparent_key == Str(<<"t", "r", "a", "c", "e", "p", "a", "r", "e", "n", "t">>)
tracestate_key == Str(<<"t", "r", "a", "c", "e", "s", "t", "a", "t", "e">>)
start_time_key == Str(<<"s", "t", "a", "r", "t", "_", "t", "i", "m", "e">>)

\* TraceContextTextMapPropagator.inject(carrier): nothing for an invalid span
\* context, else traceparent and, when the span has one, tracestate
inject(ctx) ==
    IF ctx.traceparent = <<>> THEN EmptyDict
    ELSE IF ctx.tracestate = <<>> THEN (traceparent_key :> ctx.traceparent)
    ELSE (traceparent_key :> ctx.traceparent) @@ (tracestate_key :> ctx.tracestate)

IsLowerHex(s) == \A i \in DOMAIN s : s[i] \in (48 .. 57) \cup (97 .. 102)

\* The propagator's traceparent pattern, version-traceid-spanid-flags, with
\* the ids of this model two hex digits long; version 00 allows nothing
\* after the flags.
IsTraceparent(v) ==
    LET f == Split(LStrip(RStrip(v, {9, 32}), {9, 32}), Ord["-"])
    IN /\ Len(f) = 4
       /\ \A i \in 1 .. 4 : Len(f[i]) = 2 /\ IsLowerHex(f[i])
       /\ f[2] # Str(<<"0", "0">>)
       /\ f[3] # Str(<<"0", "0">>)
       /\ f[1] # Str(<<"f", "f">>)

\* propagate.extract(carrier): the remote parent the carrier names, or a
\* context without a parent when traceparent is missing or malformed
extract(carrier) ==
    IF traceparent_key \in DOMAIN carrier /\ IsTraceparent(carrier[traceparent_key])
    THEN Context(carrier[traceparent_key],
                 IF tracestate_key \in DOMAIN carrier THEN carrier[tracestate_key]
                 ELSE <<>>,
                 FALSE)
    ELSE NoParent

\* ------------------------------------------------------------------------
\* The comment injector (src/sqltrace/_propagation.py, add_sql_comment).
\* A statement is text, [rep |-> "str", data |-> code points], or binary,
\* [rep |-> "bytes", data |-> bytes].
\* ------------------------------------------------------------------------
Text(s) == [rep |-> "str", data |-> s]
Bytes(b) == [rep |-> "bytes", data |-> b]

_get_opentelemetry_values(ctx) == inject(ctx)

\* new[-1:] == ';'
EndsWithSemicolon(new) == new # <<>> /\ new[Len(new)] = Ord[";"]

\* the comment always goes to the end, after a terminator too
InsertCommentAtEnd(new, cmt) == new \o cmt

\* the insertion of add_sql_comment, lines 74-78 (and 68-72 on bytes)
InsertComment(new, cmt) ==
    IF EndsWithSemicolon(new)
    THEN Slice(new, 1, Len(new) - 1) \o cmt \o <<Ord[";"]>>
    ELSE new \o cmt

\* sql.rstrip(): str strips Unicode whitespace, bytes ASCII whitespace
rstrip(sql) ==
    IF sql.rep = "bytes" THEN Bytes(RStrip(sql.data, BytesWhitespace))
    ELSE Text(RStrip(sql.data, StrWhitespace))

\* the gate of add_sql_comment inverted
GateInverted(ctx) == ~is_recording(ctx)

\* line 62: the comment is added only while the current span is recording
Gate(ctx) == is_recording(ctx)

add_sql_comment(sql, ctx) ==
    IF ~Gate(ctx) THEN sql
    ELSE LET cmt == _generate_sql_comment(_get_opentelemetry_values(ctx))
             new == rstrip(sql)
         IN IF new.rep = "bytes"
            THEN Bytes(InsertComment(new.data, Utf8Encode(cmt)))
            ELSE Text(InsertComment(new.data, cmt))

\* psycopg.py, _insert_context: a Composable is rendered to text first
_insert_context(command, ctx) ==
    IF command.kind = "composable"
    THEN add_sql_comment(Text(command.data), ctx)
    ELSE add_sql_comment([rep |-> command.kind, data |-> command.data], ctx)

\* ------------------------------------------------------------------------
\* Numbers.  float() is modelled on decimal literals and 'nan': a float is
\* [ok, nan, ip, fp], its integer part and its fraction digits.  A timestamp
\* in nanoseconds is [s, ns], whole seconds and the nanoseconds beyond them.
\* ------------------------------------------------------------------------
IsDigits(s) == \A i \in DOMAIN s : s[i] \in 48 .. 57

RECURSIVE DigitsVal(_)
DigitsVal(s) ==
    IF s = <<>> THEN 0
    ELSE DigitsVal(Slice(s, 1, Len(s) - 1)) * 10 + (s[Len(s)] - 48)

NotAFloat == [ok |-> FALSE, nan |-> FALSE, ip |-> 0, fp |-> <<>>]

\* float(tok)
PyFloat(tok) ==
    LET s == Strip(tok)
        dot == Find(s, <<Ord["."]>>)
        ip == IF dot = 0 THEN s ELSE Slice(s, 1, dot - 1)
        fp == IF dot = 0 THEN <<>> ELSE Slice(s, dot + 1, Len(s))
    IN IF s = Str(<<"n", "a", "n">>)
       THEN [ok |-> TRUE, nan |-> TRUE, ip |-> 0, fp |-> <<>>]
       ELSE IF IsDigits(ip) /\ IsDigits(fp) /\ Len(ip) + Len(fp) > 0
            THEN [ok |-> TRUE, nan |-> FALSE, ip |-> DigitsVal(ip), fp |-> fp]
            ELSE NotAFloat

\* the first k fraction digits as an integer, 0.fp * 10^k truncated
FracScaled(fp, k) ==
    DigitsVal([i \in 1 .. k |-> IF i <= Len(fp) THEN fp[i] ELSE 48])

\* int(f * 1e9) as a timestamp
SecondsToNanos(f) == [s |-> f.ip, ns |-> FracScaled(f.fp, 9)]

\* int(f * 1e6), a number of nanoseconds, for f in milliseconds
MillisToNanos(f) == f.ip * 1000000 + FracScaled(f.fp, 6)

\* t + n for a timestamp t and n nanoseconds
AddNanos(t, n) ==
    [s |-> t.s + ((t.ns + n) \div 1000000000), ns |-> (t.ns + n) % 1000000000]

\* ------------------------------------------------------------------------
\* Diagnostics.  message_primary is the text up to and including the first
\* 'plan:\n' marker (all of it when there is none) followed by JSON, kept as
\* the value json.loads yields: [kind, has_query, query_text, has_plan, plan]
\* with kind "object", "array" or "invalid"; a plan is a sequence of
\* <<key, value>> pairs.
\* ------------------------------------------------------------------------
Diagnostic(source_file, has_message, text, json) ==
    [source_file |-> source_file, has_message |-> has_message,
     text |-> text, json |-> json]

Json(kind, has_query, query_text, has_plan, plan) ==
    [kind |-> kind, has_query |-> has_query, query_text |-> query_text,
     has_plan |-> has_plan, plan |-> plan]

duration_prefix == Str(<<"d", "u", "r", "a", "t", "i", "o", "n", ":", " ">>)
plan_marker == Str(<<"p", "l", "a", "n", ":", "LF">>)
db_statement == Str(<<"d", "b", ".", "s", "t", "a", "t", "e", "m", "e", "n", "t">>)
db_plan == Str(<<"d", "b", ".", "p", "l", "a", "n">>)

\* s.removeprefix(p)
RemovePrefix(s, p) ==
    IF MatchAt(s, p, 1) THEN Slice(s, Len(p) + 1, Len(s)) ELSE s

RECURSIVE JsonMembers(_)
JsonMembers(plan) ==
    IF plan = <<>> THEN <<>>
    ELSE <<Str(<<"\"">>) \o plan[1][1] \o Str(<<"\"", ":", " ", "\"">>)
           \o plan[1][2] \o Str(<<"\"">>)>>
         \o JsonMembers(Tail(plan))

\* json.dumps of a flat object of plain strings
JsonDumps(plan) ==
    Str(<<"{">>) \o Join(JsonMembers(plan), Str(<<",", " ">>)) \o Str(<<"}">>)

\* ------------------------------------------------------------------------
\* Hooks: the transforms a caller registers.  tag_a and tag_b append a letter
\* to the attribute 'tag'; boom raises.
\* ------------------------------------------------------------------------
tag_key == Str(<<"t", "a", "g">>)

HookNames == {"tag_a", "tag_b", "boom"}

Tagged(attributes, letter) ==
    DictSet(attributes, tag_key,
            (IF tag_key \in DOMAIN attributes THEN attributes[tag_key] ELSE <<>>)
            \o <<Ord[letter]>>)

\* _hook(plan, duration, query, attributes)
HookCall(h, plan, duration, query, attributes) ==
    IF h = "tag_a" THEN Ok(Tagged(attributes, "a"))
    ELSE IF h = "tag_b" THEN Ok(Tagged(attributes, "b"))
    ELSE Raise("RuntimeError")

\* ------------------------------------------------------------------------
\* auto_explain_notice_handler, lines 113-142: everything before the hooks.
\* The outcome is "skip" (the record is not a traced query plan), "raise"
\* (with the exception) or "ok" (with the locals); extracted tells whether
\* propagate.extract was reached, and with which carrier.
\* ------------------------------------------------------------------------
Event(ev, arg, ret) == [ev |-> ev, arg |-> arg, ret |-> ret]

EmptyFrame ==
    [duration |-> NotAFloat, plan |-> <<>>, query |-> <<>>, parsed_qs |-> EmptyDict,
     ctx |-> NoParent, start_time |-> [s |-> 0, ns |-> 0], attributes |-> EmptyDict]

Parsed(status, e, events, frame) ==
    [status |-> status, exc |-> e, events |-> events, frame |-> frame]

\* line 136: parsed_qs['start_time'][0], the first character of the value
StartTimeText(value) == <<value[1]>>

\* lines 134-142, with the carrier decoded
ParseCarrier(d, duration, query, comment_start, parsed_qs) ==
    LET ev == <<Event("extract", parsed_qs, extract(parsed_qs))>>
        ctx == extract(parsed_qs)
    IN IF start_time_key \notin DOMAIN parsed_qs
       THEN Parsed("raise", "KeyError", ev, EmptyFrame)
       ELSE IF parsed_qs[start_time_key] = <<>>
       THEN Parsed("raise", "IndexError", ev, EmptyFrame)
       ELSE LET f == PyFloat(StartTimeText(parsed_qs[start_time_key]))
                stmt == Strip(Slice(query, 1, comment_start - 1)) \o <<Ord[";"]>>
            IN IF ~f.ok THEN Parsed("raise", "ValueError", ev, EmptyFrame)
               ELSE IF f.nan THEN Parsed("raise", "ValueError", ev, EmptyFrame)
               ELSE IF ~d.json.has_plan THEN Parsed("raise", "KeyError", ev, EmptyFrame)
               ELSE Parsed("ok", "none", ev,
                      [duration |-> duration, plan |-> d.json.plan, query |-> stmt,
                       parsed_qs |-> parsed_qs, ctx |-> ctx,
                       start_time |-> SecondsToNanos(f),
                       attributes |->
                           parsed_qs @@ (db_statement :> stmt)
                           @@ (db_plan :> JsonDumps(d.json.plan))])

\* lines 123-132, with the query text read
ParseQuery(d, duration, query) ==
    IF ~Contains(query, traceparent_key \o Str(<<"=">>))
    THEN Parsed("skip", "none", <<>>, EmptyFrame)
    ELSE LET comment_start == RFind(query, Str(<<"/", "*">>))
         IN IF comment_start = 0 THEN Parsed("raise", "ValueError", <<>>, EmptyFrame)
            ELSE LET cmt == Strip(Slice(query, comment_start + 2, Len(query) - 2))
                     qs == ParseComment(cmt)
                 IN IF ~qs.ok THEN Parsed("raise", qs.exc, <<>>, EmptyFrame)
                    ELSE ParseCarrier(d, duration, query, comment_start, qs.val)

\* lines 113-117
ParseDiagnostic(d) ==
    IF d.source_file # "auto_explain.c" THEN Parsed("skip", "none", <<>>, EmptyFrame)
    ELSE IF ~d.has_message THEN Parsed("raise", "AssertionError", <<>>, EmptyFrame)
    ELSE LET duration ==
                 PyFloat(Split1(RemovePrefix(d.text, duration_prefix), Ord[" "])[1])
         IN IF ~duration.ok THEN Parsed("raise", "ValueError", <<>>, EmptyFrame)
            ELSE IF ~Contains(d.text, plan_marker)
            THEN Parsed("raise", "IndexError", <<>>, EmptyFrame)
            ELSE IF d.json.kind = "invalid"
            THEN Parsed("raise", "JSONDecodeError", <<>>, EmptyFrame)
            ELSE IF d.json.kind # "object"
            THEN Parsed("raise", "TypeError", <<>>, EmptyFrame)
            ELSE IF ~d.json.has_query
            THEN Parsed("raise", "KeyError", <<>>, EmptyFrame)
            ELSE ParseQuery(d, duration, d.json.query_text)

\* `except Exception` catches ValueError and its like only
CatchesValueErrorOnly(e) == e \in {"ValueError", "JSONDecodeError"}

\* line 160: `except Exception` catches every exception the handler meets
Catches(e) ==
    e \in {"AssertionError", "ValueError", "JSONDecodeError", "IndexError",
           "KeyError", "TypeError", "RuntimeError"}

\* ------------------------------------------------------------------------
\* Inputs of the codec.
\* ------------------------------------------------------------------------
SeqsUpTo(A, n) == UNION {[1 .. k -> A] : k \in 0 .. n}

ValChars == {Ord[c] : c \in {"a", ",", "=", "%", "*", "/", " ", "+", "2", "C"}}
KeyChars == {Ord[c] : c \in {"a", ",", "=", "%", " "}}
PairChars == {Ord[c] : c \in {"a", ",", "=", "%"}}

OneKeyMetas ==
    {(k :> v) : k \in SeqsUpTo(KeyChars, MaxKeyLen) \ {<<>>},
                v \in SeqsUpTo(ValChars, MaxValLen)}

TwoKeyMetas ==
    {(kk[1] :> v1) @@ (kk[2] :> v2) :
        kk \in {p \in [1 .. 1 -> KeyChars] \X [1 .. 1 -> KeyChars] : p[1] # p[2]},
        v1 \in SeqsUpTo(PairChars, MaxPairLen), v2 \in SeqsUpTo(PairChars, MaxPairLen)}

Metas == {EmptyDict} \cup OneKeyMetas \cup TwoKeyMetas

\* ------------------------------------------------------------------------
\* Inputs of the injector and of the notice handler.
\* ------------------------------------------------------------------------
MaxStmtLen == 3
MaxHooks == 2

TP1 == Str(<<"0", "0", "-", "a", "1", "-", "b", "2", "-", "0", "1">>)
TP2 == Str(<<"0", "0", "-", "c", "3", "-", "d", "4", "-", "0", "1">>)
TP3 == Str(<<"0", "0", "-", "e", "5", "-", "f", "6", "-", "0", "0">>)

\* the spans an application makes current: recording ones, with and without
\* tracestate, and one that is not recording
Spans ==
    {Context(TP1, <<>>, TRUE),
     Context(TP2, Str(<<"x", "=", "1">>), TRUE),
     Context(TP3, <<>>, FALSE)}

select_1 == Str(<<"s", "e", "l", "e", "c", "t", " ", "1">>)

StmtChars == {Ord[c] : c \in {"a", ";", " ", "NBSP", "FS"}}

Stmts ==
    SeqsUpTo(StmtChars, MaxStmtLen)
    \cup {select_1, select_1 \o Str(<<";">>), select_1 \o Str(<<";", "LF">>)}

Commands ==
    {[kind |-> "str", data |-> s] : s \in Stmts}
    \cup {[kind |-> "bytes", data |-> Utf8Encode(s)] : s \in Stmts}
    \cup {[kind |-> "composable", data |-> s] : s \in {select_1, select_1 \o Str(<<";">>)}}

good_text ==
    duration_prefix \o Str(<<"1", "2", "3", ".", "4", " ", "m", "s", "LF">>)
    \o plan_marker

plan_node == <<<<Str(<<"n", "o", "d", "e">>), Str(<<"s", "c", "a", "n">>)>>>>

QueryDiagnostic(text, q) ==
    Diagnostic("auto_explain.c", TRUE, text, Json("object", TRUE, q, TRUE, plan_node))

\* the text of a statement as the server logs it
Logged(stmt) == IF stmt.rep = "bytes" THEN Utf8Decode(stmt.data) ELSE stmt.data

\* what the server may send back for a statement: its auto_explain record, or
\* a notice of another module
ServerNotices(stmt) ==
    {QueryDiagnostic(good_text, Logged(stmt)),
     Diagnostic("postgres.c", TRUE, Str(<<"a">>), Json("invalid", FALSE, <<>>, FALSE, <<>>))}

KV(k, v) == k \o Str(<<"=">>) \o v
WithComment(stmt, body, end) == stmt \o Str(<<" ", "/", "*">>) \o body \o Str(<<"*", "/">>) \o end

example_start == Str(<<"1", "7", "0", "0", "0", "0", "0", "0", "0", "0", ".", "0">>)

\* 'select 1 /*start_time=1700000000.0,traceparent=00-a1-b2-01*/;'
example_query ==
    WithComment(select_1,
                KV(start_time_key, example_start) \o Str(<<",">>) \o KV(traceparent_key, TP1),
                Str(<<";">>))

StartTimes ==
    {example_start, Str(<<"1", "7">>), Str(<<"2", ".", "5">>), Str(<<"9", "x">>),
     Str(<<".", "5">>), Str(<<"n", "a", "n">>), <<>>}

QueryTexts ==
    {WithComment(select_1,
                 KV(start_time_key, s) \o Str(<<",">>) \o KV(traceparent_key, TP1), e) :
        s \in StartTimes, e \in {<<>>, Str(<<";">>)}}
    \cup {WithComment(select_1,
                      KV(start_time_key, Str(<<"3">>)) \o Str(<<",">>)
                      \o KV(traceparent_key, TP2) \o Str(<<",">>)
                      \o KV(tracestate_key, Str(<<"x", "%", "%", "3", "D", "1">>)), <<>>),
          WithComment(select_1, KV(traceparent_key, TP1), <<>>),
          WithComment(select_1, KV(traceparent_key, TP1) \o Str(<<",", "a">>), <<>>),
          WithComment(select_1, KV(start_time_key, Str(<<"3">>)), <<>>),
          select_1 \o Str(<<" ", "'">>) \o KV(traceparent_key, Str(<<"a">>)) \o Str(<<"'">>),
          select_1 \o Str(<<";">>)}

Texts ==
    {good_text,
     duration_prefix \o Str(<<"0", ".", "5", " ", "m", "s", "LF">>) \o plan_marker,
     duration_prefix \o Str(<<"n", "a", "n", " ", "m", "s", "LF">>) \o plan_marker,
     duration_prefix \o Str(<<"x", " ", "m", "s", "LF">>) \o plan_marker,
     Str(<<"1", "2", "LF">>) \o plan_marker,
     duration_prefix \o Str(<<"1", "2", "3", ".", "4", " ", "m", "s", "LF">>)}

\* diagnostics a caller may hand to the handler: every query text in a
\* well-formed record, and the example query in records with one defect each
Diagnostics ==
    {QueryDiagnostic(good_text, q) : q \in QueryTexts}
    \cup {QueryDiagnostic(x, example_query) : x \in Texts}
    \cup {Diagnostic(src, TRUE, good_text,
                     Json("object", TRUE, example_query, TRUE, plan_node)) :
             src \in {"other.c", None}}
    \cup {Diagnostic("auto_explain.c", FALSE, <<>>,
                     Json("invalid", FALSE, <<>>, FALSE, <<>>))}
    \cup {Diagnostic("auto_explain.c", TRUE, good_text, j) :
             j \in {Json("invalid", FALSE, <<>>, FALSE, <<>>),
                    Json("array", FALSE, <<>>, FALSE, <<>>),
                    Json("object", FALSE, <<>>, TRUE, plan_node),
                    Json("object", TRUE, example_query, FALSE, <<>>),
                    Json("object", TRUE, example_query, TRUE, <<>>)}}

HookSeqs == SeqsUpTo(HookNames, MaxHooks)

\* collaborator failures a call may meet: start_span or span.end raising
Faults == {"none", "start_span", "span_end"}

\* ------------------------------------------------------------------------
\* State.
\* ------------------------------------------------------------------------
VARIABLES
    meta,         \* codec: the mapping being encoded
    comment,      \* codec: Some(_generate_sql_comment(meta)), once encoded
    decoded,      \* codec: Some(outcome of decoding the comment's body), once decoded
    current_ctx,  \* opentelemetry's current context
    pc,           \* where the program is: "idle", "sent", a step of the handler, "done"
    arg,          \* Some(query given to Cursor.execute)
    headers,      \* Some(carrier _get_opentelemetry_values returned)
    sent,         \* Some(statement handed on to the server)
    diagnostic,   \* the handler's argument
    hooks,        \* the handler's hooks
    fault,        \* the collaborator failure this call meets
    frame,        \* the handler's locals
    idx,          \* the handler's position in hooks
    token,        \* Some(context saved by context.attach)
    span,         \* Some(span tracer.start_span returned)
    exc,          \* the exception in flight, or "none"
    events,       \* the calls the handler has made, in order
    spans,        \* the spans the call has ended, in order
    entry_ctx,    \* current_ctx when the handler was entered
    outcome       \* "returned", "raised" or "running"

codec_vars == <<meta, comment, decoded>>
inject_vars == <<arg, headers, sent>>
call_vars == <<diagnostic, hooks, fault, frame, idx, token, span, exc, events, spans,
               entry_ctx, outcome>>
vars == <<codec_vars, current_ctx, pc, inject_vars, call_vars>>

NoDiagnostic == Diagnostic(None, FALSE, <<>>, Json("invalid", FALSE, <<>>, FALSE, <<>>))

NoCall ==
    /\ diagnostic = NoDiagnostic
    /\ hooks = <<>>
    /\ fault = "none"
    /\ frame = EmptyFrame
    /\ idx = 0
    /\ token = Nothing
    /\ span = Nothing
    /\ exc = "none"
    /\ events = <<>>
    /\ spans = <<>>
    /\ entry_ctx = NoParent
    /\ outcome = "returned"

NoStatement ==
    /\ arg = Nothing
    /\ headers = Nothing
    /\ sent = Nothing

\* ------------------------------------------------------------------------
\* The codec on its own: encode a mapping, decode the comment's body.
\* ------------------------------------------------------------------------
InitCodec ==
    /\ meta \in Metas
    /\ comment = Nothing
    /\ decoded = Nothing
    /\ current_ctx = NoParent
    /\ pc = "codec"
    /\ NoStatement
    /\ NoCall

Encode ==
    /\ pc = "codec"
    /\ comment = Nothing
    /\ comment' = Some(_generate_sql_comment(meta))
    /\ UNCHANGED <<meta, decoded, current_ctx, pc, inject_vars, call_vars>>

Decode ==
    /\ pc = "codec"
    /\ comment # Nothing
    /\ decoded = Nothing
    /\ decoded' = Some(ParseComment(CommentBody(comment[1])))
    /\ UNCHANGED <<meta, comment, current_ctx, pc, inject_vars, call_vars>>

NextCodec == Encode \/ Decode

SpecCodec == InitCodec /\ [][NextCodec]_vars

\* ------------------------------------------------------------------------
\* The program: an application that makes spans current, executes statements
\* through the tracing cursors, and receives notices.
\* ------------------------------------------------------------------------
Init ==
    /\ meta = EmptyDict
    /\ comment = Nothing
    /\ decoded = Nothing
    /\ current_ctx = NoParent
    /\ pc = "idle"
    /\ NoStatement
    /\ NoCall

\* test.py: `with tracer.start_as_current_span('test')`, entered
EnterSpan ==
    /\ pc = "idle"
    /\ current_ctx = NoParent
    /\ current_ctx' \in Spans
    /\ UNCHANGED <<codec_vars, pc, inject_vars, call_vars>>

\* ... and left
ExitSpan ==
    /\ pc = "idle"
    /\ current_ctx # NoParent
    /\ current_ctx' = NoParent
    /\ UNCHANGED <<codec_vars, pc, inject_vars, call_vars>>

\* Cursor.execute / executemany: the query goes through _insert_context and on
\* to the server
Execute ==
    /\ pc = "idle"
    /\ \E command \in Commands :
          /\ arg' = Some(command)
          /\ sent' = Some(_insert_context(command, current_ctx))
    /\ headers' = IF is_recording(current_ctx)
                  THEN Some(_get_opentelemetry_values(current_ctx))
                  ELSE Nothing
    /\ pc' = "sent"
    /\ UNCHANGED <<codec_vars, current_ctx, call_vars>>

\* the statement completes and the server logs nothing about it
QueryDone ==
    /\ pc = "sent"
    /\ pc' = "idle"
    /\ arg' = Nothing
    /\ headers' = Nothing
    /\ sent' = Nothing
    /\ UNCHANGED <<codec_vars, current_ctx, call_vars>>

\* the entry of auto_explain_notice_handler
Enter(d, hs, f) ==
    /\ diagnostic' = d
    /\ hooks' = hs
    /\ fault' = f
    /\ frame' = EmptyFrame
    /\ idx' = 0
    /\ token' = Nothing
    /\ span' = Nothing
    /\ exc' = "none"
    /\ events' = <<>>
    /\ spans' = <<>>
    /\ entry_ctx' = current_ctx
    /\ outcome' = "running"
    /\ pc' = "parse"

\* psycopg.py, notice_handler: a notice the server sends for the statement
\* reaches the handler, without hooks
NoticeHandler ==
    /\ pc = "sent"
    /\ \E d \in ServerNotices(sent[1]) : Enter(d, <<>>, "none")
    /\ UNCHANGED <<codec_vars, current_ctx, inject_vars>>

\* auto_explain_notice_handler(diagnostic, hooks), called by the application
AutoExplainNoticeHandler ==
    /\ pc = "idle"
    /\ \E d \in Diagnostics, hs \in HookSeqs, f \in Faults : Enter(d, hs, f)
    /\ UNCHANGED <<codec_vars, current_ctx, inject_vars>>

\* lines 113-142
Parse ==
    /\ pc = "parse"
    /\ LET r == ParseDiagnostic(diagnostic)
       IN /\ events' = r.events
          /\ frame' = r.frame
          /\ exc' = r.exc
          /\ idx' = IF r.status = "ok" THEN 1 ELSE 0
          /\ pc' = IF r.status = "ok" THEN "hooks"
                   ELSE IF r.status = "raise" THEN "except"
                   ELSE "done"
          /\ outcome' = IF r.status = "skip" THEN "returned" ELSE outcome
    /\ UNCHANGED <<codec_vars, current_ctx, inject_vars, diagnostic, hooks, fault,
                   token, span, spans, entry_ctx>>

\* the hooks are taken last to first
HookAtReversed(hs, i) == hs[Len(hs) + 1 - i]

\* the hook of this iteration
HookAt(hs, i) == hs[i]

\* lines 143-144: one iteration of the loop over hooks
Hook ==
    /\ pc = "hooks"
    /\ idx <= Len(hooks)
    /\ LET h == HookAt(hooks, idx)
           r == HookCall(h, frame.plan, frame.duration, frame.query, frame.attributes)
       IN /\ events' = Append(events, Event("hook", <<h, frame.attributes>>, r))
          /\ IF r.ok
             THEN /\ frame' = [frame EXCEPT !.attributes = r.val]
                  /\ idx' = idx + 1
                  /\ UNCHANGED <<pc, exc>>
             ELSE /\ exc' = r.exc
                  /\ pc' = "except"
                  /\ UNCHANGED <<frame, idx>>
    /\ UNCHANGED <<codec_vars, current_ctx, inject_vars, diagnostic, hooks, fault,
                   token, span, spans, entry_ctx, outcome>>

\* line 145: token = context.attach(ctx)
Attach ==
    /\ pc = "hooks"
    /\ idx > Len(hooks)
    /\ token' = Some(current_ctx)
    /\ current_ctx' = frame.ctx
    /\ events' = Append(events, Event("attach", frame.ctx, current_ctx))
    /\ pc' = "start_span"
    /\ UNCHANGED <<codec_vars, inject_vars, diagnostic, hooks, fault, frame, idx,
                   span, exc, spans, entry_ctx, outcome>>

\* lines 147-152: tracer.start_span under the current context
StartSpan ==
    /\ pc = "start_span"
    /\ IF fault = "start_span"
       THEN /\ exc' = "RuntimeError"
            /\ pc' = "finally"
            /\ events' = Append(events, Event("start_span", frame.attributes, Raise("RuntimeError")))
            /\ UNCHANGED span
       ELSE /\ span' = Some([name |-> "query-plan", kind |-> "INTERNAL",
                             attributes |-> frame.attributes,
                             start_time |-> frame.start_time,
                             parent |-> current_ctx.traceparent])
            /\ events' = Append(events, Event("start_span", frame.attributes, Ok(<<>>)))
            /\ pc' = "span_end"
            /\ UNCHANGED exc
    /\ UNCHANGED <<codec_vars, current_ctx, inject_vars, diagnostic, hooks, fault,
                   frame, idx, token, spans, entry_ctx, outcome>>

\* line 157: span.end(end_time=start_time + int(duration * 1e6))
EndSpan ==
    /\ pc = "span_end"
    /\ IF frame.duration.nan
       THEN /\ exc' = "ValueError"
            /\ UNCHANGED <<spans, events>>
       ELSE LET end_time == AddNanos(frame.start_time, MillisToNanos(frame.duration))
            IN IF fault = "span_end"
               THEN /\ exc' = "RuntimeError"
                    /\ events' = Append(events, Event("end", end_time, Raise("RuntimeError")))
                    /\ UNCHANGED spans
               ELSE /\ spans' = Append(spans, [span |-> span[1], end_time |-> end_time])
                    /\ events' = Append(events, Event("end", end_time, Ok(<<>>)))
                    /\ UNCHANGED exc
    /\ pc' = "finally"
    /\ UNCHANGED <<codec_vars, current_ctx, inject_vars, diagnostic, hooks, fault,
                   frame, idx, token, span, entry_ctx, outcome>>

\* the finally block does nothing
NoDetach(ctx, tok) == ctx

\* context.detach(token): the context saved by attach is current again
Detach(ctx, tok) == tok

\* lines 158-159: finally: context.detach(token)
Finally ==
    /\ pc = "finally"
    /\ current_ctx' = Detach(current_ctx, token[1])
    /\ events' = Append(events, Event("detach", token[1], current_ctx))
    /\ pc' = IF exc = "none" THEN "done" ELSE "except"
    /\ outcome' = IF exc = "none" THEN "returned" ELSE outcome
    /\ UNCHANGED <<codec_vars, inject_vars, diagnostic, hooks, fault, frame, idx,
                   token, span, exc, spans, entry_ctx>>

\* lines 160-161: except Exception: return
Except ==
    /\ pc = "except"
    /\ outcome' = IF Catches(exc) THEN "returned" ELSE "raised"
    /\ pc' = "done"
    /\ UNCHANGED <<codec_vars, current_ctx, inject_vars, diagnostic, hooks, fault,
                   frame, idx, token, span, exc, events, spans, entry_ctx>>

\* the handler's frame is gone and the program goes on
Return ==
    /\ pc = "done"
    /\ pc' = "idle"
    /\ arg' = Nothing
    /\ headers' = Nothing
    /\ sent' = Nothing
    /\ diagnostic' = NoDiagnostic
    /\ hooks' = <<>>
    /\ fault' = "none"
    /\ frame' = EmptyFrame
    /\ idx' = 0
    /\ token' = Nothing
    /\ span' = Nothing
    /\ exc' = "none"
    /\ events' = <<>>
    /\ spans' = <<>>
    /\ entry_ctx' = NoParent
    /\ outcome' = "returned"
    /\ UNCHANGED <<codec_vars, current_ctx>>

Next ==
    \/ EnterSpan
    \/ ExitSpan
    \/ Execute
    \/ QueryDone
    \/ AutoExplainNoticeHandler
    \/ NoticeHandler
    \/ Parse
    \/ Hook
    \/ Attach
    \/ StartSpan
    \/ EndSpan
    \/ Finally
    \/ Except
    \/ Return

Spec == Init /\ [][Next]_vars

\* ------------------------------------------------------------------------
\* Claims.
\* ------------------------------------------------------------------------
EventsOf(name) == SelectSeq(events, LAMBDA e : e.ev = name)

\* the statement the injector was given, as add_sql_comment receives it
Given == [rep |-> IF arg[1].kind = "bytes" THEN "bytes" ELSE "str", data |-> arg[1].data]

\* C1 as claimed: for every mapping without empty keys, decoding the body of the
\* comment _generate_sql_comment produces yields the mapping itself.
C1_RoundTripAll == decoded # Nothing => decoded[1] = Ok(meta)

\* C1, amended: for every non-empty mapping without empty keys, decoding the
\* body of the comment _generate_sql_comment produces yields the mapping itself.
C1_RoundTrip == (decoded # Nothing /\ DOMAIN meta # {}) => decoded[1] = Ok(meta)

\* a mapping whose value holds ',', '=' and '%' has been encoded and decoded
C1_Witness ==
    /\ decoded # Nothing
    /\ \E k \in DOMAIN meta :
          \E v \in {Str(<<",", "%">>), Str(<<"=", ",">>), Str(<<"%", "2">>)} :
             meta[k] = v

\* the records of C2: source auto_explain.c, 'duration: D ms\nplan:\n' and a
\* query text ending in a comment with start_time=S and a traceparent
TimedRecord(S, D, end) ==
    QueryDiagnostic(
        duration_prefix \o D \o Str(<<" ", "m", "s", "LF">>) \o plan_marker,
        WithComment(select_1,
                    KV(start_time_key, S) \o Str(<<",">>) \o KV(traceparent_key, TP1),
                    end))

\* C2: for a record of auto_explain.c with duration D ms whose query text ends
\* with a comment carrying start_time=S and a traceparent, the handler emits
\* exactly one span, named query-plan, starting at S * 1e9 ns and ending
\* D * 1e6 ns later.
C2_SpanTiming ==
    \A S \in {example_start, Str(<<"1", "7">>), Str(<<"2", ".", "5">>)},
       D \in {Str(<<"1", "2", "3", ".", "4">>), Str(<<"0", ".", "5">>)},
       end \in {<<>>, Str(<<";">>)} :
        (/\ pc = "done"
         /\ diagnostic = TimedRecord(S, D, end)
         /\ fault = "none"
         /\ \A i \in DOMAIN hooks : hooks[i] # "boom")
        => /\ Len(spans) = 1
           /\ spans[1].span.name = "query-plan"
           /\ spans[1].span.start_time = SecondsToNanos(PyFloat(S))
           /\ spans[1].end_time =
                 AddNanos(SecondsToNanos(PyFloat(S)), MillisToNanos(PyFloat(D)))

\* the handler is past its parsing of the record the server logged for the
\* statement the injector produced
HandlingInjected ==
    /\ pc \in {"hooks", "start_span", "span_end", "finally", "except", "done"}
    /\ headers # Nothing
    /\ diagnostic = QueryDiagnostic(good_text, Logged(sent[1]))

\* C3: when a record's query text is the statement the injector produced from
\* a statement and a carrier, the carrier the handler decodes and hands to
\* extract is that carrier, and the context extracted is the injected one.
C3_WireAgreement ==
    HandlingInjected
    => /\ EventsOf("extract") # <<>>
       /\ EventsOf("extract")[1].arg = headers[1]
       /\ EventsOf("extract")[1].ret.traceparent = headers[1][traceparent_key]

\* C4: every comment add_sql_comment appends while the current span is
\* recording carries a traceparent key and a start_time key.
C4_RequiredKeys ==
    (pc = "sent" /\ is_recording(current_ctx))
    => /\ headers # Nothing
       /\ {traceparent_key, start_time_key} \subseteq DOMAIN headers[1]
       /\ Contains(Logged(sent[1]), KV(traceparent_key, <<>>))
       /\ Contains(Logged(sent[1]), KV(start_time_key, <<>>))

\* t is s without its trailing whitespace
IsTrimmed(t, s, ws) ==
    /\ Len(t) <= Len(s)
    /\ t = Slice(s, 1, Len(t))
    /\ \A i \in (Len(t) + 1) .. Len(s) : s[i] \in ws
    /\ (t # <<>> => t[Len(t)] \notin ws)

\* C5: while the current span is recording, add_sql_comment returns the
\* statement without its trailing whitespace and with the comment inserted
\* immediately before a final ';', or appended when there is none.
C5_Placement ==
    (pc = "sent" /\ headers # Nothing)
    => LET ws == IF Given.rep = "bytes" THEN BytesWhitespace ELSE StrWhitespace
           c == _generate_sql_comment(headers[1])
           cmt == IF Given.rep = "bytes" THEN Utf8Encode(c) ELSE c
           out == sent[1].data
       IN /\ cmt # <<>>
          /\ \E n \in 0 .. Len(Given.data) :
               LET t == Slice(Given.data, 1, n)
               IN /\ IsTrimmed(t, Given.data, ws)
                  /\ IF t # <<>> /\ t[Len(t)] = Ord[";"]
                     THEN /\ out = Slice(t, 1, n - 1) \o cmt \o <<Ord[";"]>>
                          /\ Slice(out, 1, n - 1) \o <<Ord[";"]>> = t
                     ELSE /\ out = t \o cmt
                          /\ Slice(out, 1, n) = t

\* a statement with a terminator and trailing whitespace was annotated
C5_Witness ==
    /\ pc = "sent"
    /\ headers # Nothing
    /\ arg[1] = [kind |-> "str", data |-> Str(<<"a", ";", " ">>)]
    /\ sent[1].data =
          Str(<<"a">>) \o WithComment(<<>>, KV(traceparent_key, TP1), Str(<<";">>))

\* C6: add_sql_comment returns its argument unchanged when the current span is
\* not recording, and a statement with a comment when it is.
C6_Gating ==
    pc = "sent"
    => IF is_recording(current_ctx)
       THEN /\ sent[1].rep = Given.rep
            /\ Len(sent[1].data) > Len(Given.data)
            /\ Contains(Logged(sent[1]), Str(<<" ", "/", "*">>) \o KV(traceparent_key, <<>>))
            /\ Contains(Logged(sent[1]), Str(<<"*", "/">>))
       ELSE sent[1] = Given

\* a statement with trailing whitespace went out untouched under a span that
\* is not recording
C6_Witness ==
    /\ pc = "sent"
    /\ current_ctx = Context(TP3, <<>>, FALSE)
    /\ arg[1] = [kind |-> "bytes", data |-> Str(<<"a", ";", " ">>)]
    /\ sent[1] = Bytes(Str(<<"a", ";", " ">>))

\* the inputs the handler cannot make a span of
bad_query_texts ==
    {WithComment(select_1, KV(traceparent_key, TP1), <<>>),
     WithComment(select_1, KV(traceparent_key, TP1) \o Str(<<",", "a">>), <<>>),
     WithComment(select_1, KV(start_time_key, Str(<<"3">>)), <<>>),
     select_1 \o Str(<<" ", "'">>) \o KV(traceparent_key, Str(<<"a">>)) \o Str(<<"'">>),
     select_1 \o Str(<<";">>)}

bad_texts ==
    {duration_prefix \o Str(<<"x", " ", "m", "s", "LF">>) \o plan_marker,
     duration_prefix \o Str(<<"1", "2", "3", ".", "4", " ", "m", "s", "LF">>)}

FailureCase ==
    \/ diagnostic.source_file # "auto_explain.c"
    \/ ~diagnostic.has_message
    \/ diagnostic.text \in bad_texts
    \/ diagnostic.json.kind # "object"
    \/ ~diagnostic.json.has_query
    \/ ~diagnostic.json.has_plan
    \/ diagnostic.json.query_text \in bad_query_texts
    \/ \E i \in DOMAIN hooks : hooks[i] = "boom"
    \/ fault # "none"

\* C7: the handler always returns normally, and it emits no span when the
\* source is not auto_explain.c, the message is missing, the duration does
\* not parse, the plan marker or the JSON is missing or invalid, Query Text
\* or Plan is missing, the query text has no traceparent=, no '/*', a part
\* without '=' or no start_time, or a hook or a collaborator raises.
C7_SilentNoOp ==
    /\ outcome # "raised"
    /\ pc = "done" => outcome = "returned"
    /\ (pc = "done" /\ FailureCase) => spans = <<>>

\* a hook raised and the handler returned without a span
C7_Witness ==
    /\ pc = "done"
    /\ outcome = "returned"
    /\ exc = "RuntimeError"
    /\ hooks = <<"tag_a", "boom">>
    /\ diagnostic = QueryDiagnostic(good_text, example_query)
    /\ Len(EventsOf("hook")) = 2
    /\ spans = <<>>

\* db.statement, db.plan and all carrier pairs
InitialAttributes ==
    [k \in DOMAIN frame.parsed_qs \cup {db_statement, db_plan} |->
        IF k \in DOMAIN frame.parsed_qs THEN frame.parsed_qs[k]
        ELSE IF k = db_statement THEN frame.query
        ELSE JsonDumps(frame.plan)]

\* C8: once the span is started, every hook has been called exactly once, in
\* registration order and before start_span, each on the attributes the
\* previous one returned (the first on the initial attributes), and the span
\* has the attributes the last one returned.
C8_HookOrder ==
    span # Nothing
    => LET hk == EventsOf("hook")
           n == Len(hooks)
       IN /\ Len(hk) = n
          /\ \A i \in 1 .. n :
                /\ hk[i].arg[1] = hooks[i]
                /\ hk[i].ret.ok
                /\ hk[i].arg[2] = IF i = 1 THEN InitialAttributes ELSE hk[i - 1].ret.val
          /\ span[1].attributes = IF n = 0 THEN InitialAttributes ELSE hk[n].ret.val
          /\ \A i, j \in DOMAIN events :
                (events[i].ev = "hook" /\ events[j].ev = "start_span") => i < j
          /\ (n > 0 =>
                span[1].attributes[tag_key] =
                    [i \in 1 .. n |-> IF hooks[i] = "tag_a" THEN Ord["a"] ELSE Ord["b"]])
          /\ \A k \in DOMAIN InitialAttributes :
                k \in DOMAIN span[1].attributes
                /\ span[1].attributes[k] = InitialAttributes[k]

\* a span was emitted after tag_a and then tag_b
C8_Witness ==
    /\ pc = "done"
    /\ hooks = <<"tag_a", "tag_b">>
    /\ Len(spans) = 1
    /\ spans[1].span.attributes[tag_key] = Str(<<"a", "b">>)

\* C9: when the handler is about to return, every context.attach has been
\* followed by a context.detach of its token, and the current context is the
\* one the handler was entered with.
C9_ScopedActivation ==
    /\ pc \in {"except", "done"} =>
          /\ current_ctx = entry_ctx
          /\ Len(EventsOf("attach")) = Len(EventsOf("detach"))
          /\ Len(EventsOf("attach")) <= 1
          /\ \A i \in DOMAIN events :
                events[i].ev = "attach" =>
                    \E j \in DOMAIN events :
                        /\ j > i
                        /\ events[j].ev = "detach"
                        /\ events[j].arg = events[i].ret
    /\ pc \in {"idle", "sent"} => token = Nothing

\* start_span raised under an attached parent and the caller's context is back
C9_Witness ==
    /\ pc = "done"
    /\ fault = "start_span"
    /\ exc = "RuntimeError"
    /\ Len(EventsOf("attach")) = 1
    /\ EventsOf("attach")[1].arg # entry_ctx
    /\ current_ctx = entry_ctx

\* C10: for a textual statement and a recording span, add_sql_comment of the
\* statement's UTF-8 bytes is the UTF-8 encoding of add_sql_comment of the
\* statement.
C10_TextBinaryAgree ==
    (pc = "sent" /\ arg[1].kind = "str" /\ is_recording(current_ctx))
    => add_sql_comment(Bytes(Utf8Encode(arg[1].data)), current_ctx).data
       = Utf8Encode(sent[1].data)

====
